---- MODULE Spec2Model ----
(***************************************************************************)
(* Model of the stream Writer (core/internal/server/stream/writer.go):     *)
(* the goroutine running Writer.Do, the persistence worker goroutine       *)
(* launched by Writer.startStore, and the two external collaborators at    *)
(* the ends of its channels: the handler, which feeds and closes the       *)
(* inbound channel, and the sender, which drains the forwarding channel.   *)
(*                                                                         *)
(* A record is identified by its arrival position in `inbound` (the        *)
(* pointer *pb.Record that travels through the channels); its mutable Num  *)
(* field lives in `num`.                                                   *)
(***************************************************************************)
EXTENDS Integers, Sequences, FiniteSets, TLC

\* ------------------------------------------------------------------ bounds
\* Number of records the handler emits in one run.
MaxRecords == 3
\* Capacity of the inbound channel (made by the caller of Do).
InChanCap == 1
\* Capacity of the forwarding channel (made by the caller, WithWriterFwdChannel).
FwdChanCap == 1
\* Capacity of storeChan; the code makes it BufferSize*8, scaled down here so
\* that a full persistence-request channel is reached.
StoreChanCap == 1

\* ------------------------------------------------------------------ records
\* record.RecordType: a request, unset (nil), or any other (data) variant
RecordTypes == {"request", "nil", "data"}

\* A record as it arrives: payload variant and the two control flags
\* (a nil Control reads as both flags false). Data records come with every
\* combination of the flags; request and nil records come plain or with both
\* flags set.
Records ==
    {r \in [type : RecordTypes, local : BOOLEAN, alwaysSend : BOOLEAN] :
        r.type /= "data" => r.local = r.alwaysSend}

RecordIds == 1..MaxRecords

VARIABLES
    xSync,          \* settings.XSync
    xOffline,       \* settings.XOffline
    inbound,        \* every record the handler has put on inChan, in order
    inChan,         \* inbound channel: record ids not yet taken by Do
    inClosed,       \* the handler has closed inChan
    pc,             \* position of the goroutine running Do
    cur,            \* record being handled by handleRecord (0: none)
    fwdChan,        \* w.fwdChan contents
    fwdClosed,      \* w.fwdChan is closed
    storeChan,      \* w.storeChan contents
    storeChanState, \* "nil" | "open" | "closed"
    recordNum,      \* w.recordNum
    num,            \* record.Num of every record
    store,          \* w.store: "none" | "open" | "openFailed" | "closed"
    storeFile,      \* frames in the backing file, in write order
    wpc,            \* persistence worker: "none" | "run" | "done"
    wg,             \* w.wg counter
    received,       \* records taken by the sender from fwdChan, in order
    queued,         \* <<id, num>> of every send on storeChan, in order
    log             \* logger.Error / CaptureError / CaptureFatal entries

vars == <<xSync, xOffline, inbound, inChan, inClosed, pc, cur, fwdChan,
          fwdClosed, storeChan, storeChanState, recordNum, num, store,
          storeFile, wpc, wg, received, queued, log>>

handlerVars == <<inbound, inChan, inClosed>>
settingsVars == <<xSync, xOffline>>
fwdVars == <<fwdChan, fwdClosed, received>>
storeVars == <<store, storeFile, wpc, wg>>

Rec(id) == inbound[id]

\* ------------------------------------------------------------------ helpers
IsPrefix(s, t) == Len(s) <= Len(t) /\ \A i \in 1..Len(s) : s[i] = t[i]

Range(s) == {s[i] : i \in 1..Len(s)}

\* ------------------------------------------------------------------ init
\* NewWriter: zero-valued Writer with settings and fwdChan supplied by options.
Init ==
    /\ xSync \in BOOLEAN
    /\ xOffline \in BOOLEAN
    /\ inbound = <<>>
    /\ inChan = <<>>
    /\ inClosed = FALSE
    /\ pc = "start"
    /\ cur = 0
    /\ fwdChan = <<>>
    /\ fwdClosed = FALSE
    /\ storeChan = <<>>
    /\ storeChanState = "nil"
    /\ recordNum = 0
    /\ num = [i \in RecordIds |-> 0]
    /\ store = "none"
    /\ storeFile = <<>>
    /\ wpc = "none"
    /\ wg = 0
    /\ received = <<>>
    /\ queued = <<>>
    /\ log = <<>>

\* ------------------------------------------------------------------ handler
\* The handler puts one more record on the inbound channel.
HandlerSend ==
    /\ ~inClosed
    /\ Len(inbound) < MaxRecords
    /\ Len(inChan) < InChanCap
    /\ \E r \in Records :
          /\ inbound' = Append(inbound, r)
          /\ inChan' = Append(inChan, Len(inbound) + 1)
    /\ UNCHANGED <<settingsVars, inClosed, pc, cur, fwdVars, storeChan,
                   storeChanState, recordNum, num, storeVars, queued, log>>

\* The handler closes the inbound channel: the run has ended.
HandlerClose ==
    /\ ~inClosed
    /\ inClosed' = TRUE
    /\ UNCHANGED <<settingsVars, inbound, inChan, pc, cur, fwdVars, storeChan,
                   storeChanState, recordNum, num, storeVars, queued, log>>

\* ------------------------------------------------------------------ store
\* store.Write(out): appends one frame to the backing file, in call order.
StoreWrite(file, frame) == Append(file, frame)

\* Marshal of the record as it arrived, before storeRecord set Num.
Marshal_WithoutNum(id) ==
    [id |-> id, type |-> Rec(id).type, local |-> Rec(id).local,
     alwaysSend |-> Rec(id).alwaysSend, num |-> 0]

\* proto.Marshal(record): the bytes of the record as it is at that moment,
\* its Num field included; decoding the frame gives these fields back.
Marshal(id) ==
    [id |-> id, type |-> Rec(id).type, local |-> Rec(id).local,
     alwaysSend |-> Rec(id).alwaysSend, num |-> num[id]]

\* ------------------------------------------------------------------ writer
\* logger.CaptureFatalAndPanic: the goroutine running Do unwinds; the deferred
\* logger.Reraise re-panics, so Do never reaches its loop.
CaptureFatalAndPanic == "panicked"

\* startStore with the result of store.Open ignored: the failure is logged and
\* the worker is launched all the same.
StartStore_IgnoresOpenError ==
    /\ pc = "start"
    /\ IF xSync
       THEN /\ pc' = "recv"
            /\ UNCHANGED <<storeChanState, store, wpc, wg, log>>
       ELSE /\ storeChanState' = "open"
            /\ \E opened \in BOOLEAN :
                  /\ store' = IF opened THEN "open" ELSE "openFailed"
                  /\ log' = IF opened THEN log
                            ELSE Append(log, <<"writer: error creating store", 0>>)
            /\ wg' = wg + 1
            /\ wpc' = "run"
            /\ pc' = "recv"
    /\ UNCHANGED <<settingsVars, handlerVars, cur, fwdVars, storeChan,
                   recordNum, num, storeFile, queued>>

\* startStore without the x_sync test: the store is always set up.
StartStore_IgnoresXSync ==
    /\ pc = "start"
    /\ storeChanState' = "open"
    /\ \E opened \in BOOLEAN :
          IF opened
          THEN /\ store' = "open"
               /\ wg' = wg + 1
               /\ wpc' = "run"
               /\ pc' = "recv"
               /\ UNCHANGED log
          ELSE /\ store' = "openFailed"
               /\ log' = Append(log, <<"writer: error creating store", 0>>)
               /\ pc' = CaptureFatalAndPanic
               /\ UNCHANGED <<wpc, wg>>
    /\ UNCHANGED <<settingsVars, handlerVars, cur, fwdVars, storeChan,
                   recordNum, num, storeFile, queued>>

\* Writer.startStore, called first thing by Do.
StartStore ==
    /\ pc = "start"
    /\ IF xSync
       THEN \* do not set up store if we are syncing an offline run
            /\ pc' = "recv"
            /\ UNCHANGED <<storeChanState, store, wpc, wg, log>>
       ELSE /\ storeChanState' = "open"
            /\ \E opened \in BOOLEAN :
                  IF opened
                  THEN /\ store' = "open"
                       /\ wg' = wg + 1
                       /\ wpc' = "run"
                       /\ pc' = "recv"
                       /\ UNCHANGED log
                  ELSE /\ store' = "openFailed"
                       /\ log' = Append(log, <<"writer: error creating store", 0>>)
                       /\ pc' = CaptureFatalAndPanic
                       /\ UNCHANGED <<wpc, wg>>
    /\ UNCHANGED <<settingsVars, handlerVars, cur, fwdVars, storeChan,
                   recordNum, num, storeFile, queued>>

\* The type switch with the nil case falling into the default case.
HandleRecordSwitch_NilAsData(t) == "send"

\* The default case without its sendRecord call: data goes straight to storeRecord.
HandleRecordSwitch_StoreOnly(t) ==
    CASE t = "request" -> "send"
      [] t = "nil"     -> "recv"
      [] OTHER         -> "store"

\* Position after the type switch of handleRecord for a record of type t.
HandleRecordSwitch(t) ==
    CASE t = "request" -> "send"
      [] t = "nil"     -> "recv"
      [] OTHER         -> "send"

\* One iteration of `for record := range inChan`: take the next record and
\* enter handleRecord; an unset payload variant is logged and dropped.
RecvRecord ==
    /\ pc = "recv"
    /\ inChan /= <<>>
    /\ LET id == Head(inChan)
           next == HandleRecordSwitch(Rec(id).type)
       IN /\ inChan' = Tail(inChan)
          /\ pc' = next
          /\ cur' = IF next = "recv" THEN 0 ELSE id
          /\ log' = IF Rec(id).type = "nil"
                    THEN Append(log, <<"nil record type", id>>)
                    ELSE log
    /\ UNCHANGED <<settingsVars, inbound, inClosed, fwdVars, storeChan,
                   storeChanState, recordNum, num, storeVars, queued>>

\* sendRecord applying the offline rule to data records only.
SendSuppressed_DataOnly(r) == r.type /= "request" /\ xOffline /\ ~r.alwaysSend

\* sendRecord without the always_send test.
SendSuppressed_IgnoresAlwaysSend(r) == xOffline

\* The early return of sendRecord: offline and the record is not always_send.
SendSuppressed(r) == xOffline /\ ~r.alwaysSend

\* Position after sendRecord returns to handleRecord.
AfterSend(r) == IF r.type = "request" THEN "recv" ELSE "store"

\* Writer.sendRecord: returns early when suppressed, else sends on fwdChan,
\* blocking while the channel is full.
SendRecord ==
    /\ pc = "send"
    /\ IF SendSuppressed(Rec(cur))
       THEN UNCHANGED fwdChan
       ELSE /\ ~fwdClosed
            /\ Len(fwdChan) < FwdChanCap
            /\ fwdChan' = Append(fwdChan, cur)
    /\ pc' = AfterSend(Rec(cur))
    /\ cur' = IF pc' = "recv" THEN 0 ELSE cur
    /\ UNCHANGED <<settingsVars, handlerVars, fwdClosed, received, storeChan,
                   storeChanState, recordNum, num, storeVars, queued, log>>

\* storeRecord without the local test.
StoreSkipped_Never(r) == FALSE

\* storeRecord skipping what offline mode does not forward.
StoreSkipped_WhenOffline(r) == r.local \/ (xOffline /\ ~r.alwaysSend)

\* The early return of storeRecord.
StoreSkipped(r) == r.local

\* storeRecord taking the sequence number before the local test.
StoreRecord_CountsLocal ==
    /\ pc = "store"
    /\ recordNum' = recordNum + 1
    /\ IF Rec(cur).local
       THEN /\ pc' = "recv"
            /\ cur' = 0
            /\ UNCHANGED num
       ELSE /\ num' = [num EXCEPT ![cur] = recordNum']
            /\ pc' = "storeSend"
            /\ UNCHANGED cur
    /\ UNCHANGED <<settingsVars, handlerVars, fwdVars, storeChan,
                   storeChanState, storeVars, queued, log>>

\* Writer.storeRecord up to the channel send: a local record returns, any
\* other takes the next sequence number.
StoreRecord ==
    /\ pc = "store"
    /\ IF StoreSkipped(Rec(cur))
       THEN /\ pc' = "recv"
            /\ cur' = 0
            /\ UNCHANGED <<recordNum, num>>
       ELSE /\ recordNum' = recordNum + 1
            /\ num' = [num EXCEPT ![cur] = recordNum']
            /\ pc' = "storeSend"
            /\ UNCHANGED cur
    /\ UNCHANGED <<settingsVars, handlerVars, fwdVars, storeChan,
                   storeChanState, storeVars, queued, log>>

\* The send on storeChan as a select with a default case: a full channel
\* drops the record instead of blocking.
StoreSend_DropsWhenFull ==
    /\ pc = "storeSend"
    /\ storeChanState = "open"
    /\ IF Len(storeChan) < StoreChanCap
       THEN /\ storeChan' = Append(storeChan, cur)
            /\ queued' = Append(queued, <<cur, num[cur]>>)
       ELSE UNCHANGED <<storeChan, queued>>
    /\ pc' = "recv"
    /\ cur' = 0
    /\ UNCHANGED <<settingsVars, handlerVars, fwdVars, storeChanState,
                   recordNum, num, storeVars, log>>

\* `w.storeChan <- record`: blocks while the channel is full, and for ever
\* on the nil channel that startStore leaves when x_sync is set.
StoreSend ==
    /\ pc = "storeSend"
    /\ storeChanState = "open"
    /\ Len(storeChan) < StoreChanCap
    /\ storeChan' = Append(storeChan, cur)
    /\ queued' = Append(queued, <<cur, num[cur]>>)
    /\ pc' = "recv"
    /\ cur' = 0
    /\ UNCHANGED <<settingsVars, handlerVars, fwdVars, storeChanState,
                   recordNum, num, storeVars, log>>

\* Do calling Close as soon as inChan is closed, with records still waiting.
Close_BeforeDrain ==
    /\ pc = "recv"
    /\ inClosed
    /\ fwdClosed' = TRUE
    /\ pc' = "closeStore"
    /\ UNCHANGED <<settingsVars, handlerVars, cur, fwdChan, received, storeChan,
                   storeChanState, recordNum, num, storeVars, queued, log>>

\* The range loop ends on the closed, drained inChan and Do calls Close,
\* which first closes fwdChan.
Close ==
    /\ pc = "recv"
    /\ inChan = <<>>
    /\ inClosed
    /\ fwdClosed' = TRUE
    /\ pc' = "closeStore"
    /\ UNCHANGED <<settingsVars, handlerVars, cur, fwdChan, received, storeChan,
                   storeChanState, recordNum, num, storeVars, queued, log>>

\* Close, second half: storeChan is closed if there is one.
CloseStore ==
    /\ pc = "closeStore"
    /\ storeChanState' = IF storeChanState = "nil" THEN "nil" ELSE "closed"
    /\ pc' = "wait"
    /\ UNCHANGED <<settingsVars, handlerVars, cur, fwdVars, storeChan,
                   recordNum, num, storeVars, queued, log>>

\* Do returning after Close without waiting for the worker.
Wait_NoWaitGroup ==
    /\ pc = "wait"
    /\ pc' = "done"
    /\ UNCHANGED <<settingsVars, handlerVars, cur, fwdVars, storeChan,
                   storeChanState, recordNum, num, storeVars, queued, log>>

\* w.wg.Wait() at the end of Do.
Wait ==
    /\ pc = "wait"
    /\ wg = 0
    /\ pc' = "done"
    /\ UNCHANGED <<settingsVars, handlerVars, cur, fwdVars, storeChan,
                   storeChanState, recordNum, num, storeVars, queued, log>>

\* ------------------------------------------------------------------ worker
\* The worker's loop with `return` in place of `continue`: a failed marshal or
\* write ends the goroutine, leaving the store open and the wait group held.
WorkerWrite_ReturnsOnError ==
    /\ wpc = "run"
    /\ storeChan /= <<>>
    /\ LET id == Head(storeChan)
       IN /\ storeChan' = Tail(storeChan)
          /\ \E marshalled \in BOOLEAN, written \in BOOLEAN :
                /\ IF ~marshalled
                   THEN /\ written
                        /\ log' = Append(log, <<"writer: error marshalling record", id>>)
                        /\ wpc' = "done"
                        /\ UNCHANGED storeFile
                   ELSE IF ~written
                   THEN /\ log' = Append(log, <<"writer: error storing record", id>>)
                        /\ wpc' = "done"
                        /\ UNCHANGED storeFile
                   ELSE /\ storeFile' = StoreWrite(storeFile, Marshal(id))
                        /\ UNCHANGED <<log, wpc>>
    /\ UNCHANGED <<settingsVars, handlerVars, pc, cur, fwdVars, storeChanState,
                   recordNum, num, store, wg, queued>>

\* One iteration of the worker's `for record := range w.storeChan`:
\* marshal, then write; either may fail, which is logged and the record skipped.
WorkerWrite ==
    /\ wpc = "run"
    /\ storeChan /= <<>>
    /\ LET id == Head(storeChan)
       IN /\ storeChan' = Tail(storeChan)
          /\ \E marshalled \in BOOLEAN, written \in BOOLEAN :
                /\ IF ~marshalled
                   THEN /\ written
                        /\ log' = Append(log, <<"writer: error marshalling record", id>>)
                        /\ UNCHANGED storeFile
                   ELSE IF ~written
                   THEN /\ log' = Append(log, <<"writer: error storing record", id>>)
                        /\ UNCHANGED storeFile
                   ELSE /\ storeFile' = StoreWrite(storeFile, Marshal(id))
                        /\ UNCHANGED log
    /\ UNCHANGED <<settingsVars, handlerVars, pc, cur, fwdVars, storeChanState,
                   recordNum, num, store, wpc, wg, queued>>

\* The worker's loop ends on the closed, drained storeChan: it closes the
\* store (a failure is logged) and signals the wait group.
WorkerClose ==
    /\ wpc = "run"
    /\ storeChan = <<>>
    /\ storeChanState = "closed"
    /\ store' = "closed"
    /\ \E closed \in BOOLEAN :
          log' = IF closed THEN log
                 ELSE Append(log, <<"writer: error closing store", 0>>)
    /\ wg' = wg - 1
    /\ wpc' = "done"
    /\ UNCHANGED <<settingsVars, handlerVars, pc, cur, fwdVars, storeChan,
                   storeChanState, recordNum, num, storeFile, queued>>

\* ------------------------------------------------------------------ sender
\* The sender takes the next record from the forwarding channel.
SenderRecv ==
    /\ fwdChan /= <<>>
    /\ received' = Append(received, Head(fwdChan))
    /\ fwdChan' = Tail(fwdChan)
    /\ UNCHANGED <<settingsVars, handlerVars, pc, cur, fwdClosed, storeChan,
                   storeChanState, recordNum, num, storeVars, queued, log>>

\* ------------------------------------------------------------------ spec
Next ==
    \/ HandlerSend
    \/ HandlerClose
    \/ StartStore
    \/ RecvRecord
    \/ SendRecord
    \/ StoreRecord
    \/ StoreSend
    \/ Close
    \/ CloseStore
    \/ Wait
    \/ WorkerWrite
    \/ WorkerClose
    \/ SenderRecv

Spec == Init /\ [][Next]_vars

\* The goroutine running Do, the worker goroutine and the sender are each
\* scheduled as long as they can take a step; the handler owes nothing.
WriterNext ==
    \/ StartStore \/ RecvRecord \/ SendRecord \/ StoreRecord \/ StoreSend
    \/ Close \/ CloseStore \/ Wait

WorkerNext == WorkerWrite \/ WorkerClose

LiveSpec ==
    /\ Init
    /\ [][Next]_vars
    /\ WF_vars(WriterNext)
    /\ WF_vars(WorkerNext)
    /\ WF_vars(SenderRecv)

\* ------------------------------------------------------------------ progress of a record
\* Records Do has taken from inChan so far are 1..Taken.
Taken == Len(inbound) - Len(inChan)

\* handleRecord has returned for record id.
Handled(id) == id <= Taken /\ cur /= id

\* sendRecord has returned for record id (never called for a nil variant).
SendDone(id) == id <= Taken /\ ~(cur = id /\ pc = "send")

\* Record id has been put on the forwarding channel.
Forwarded(id) == id \in Range(fwdChan) \cup Range(received)

\* Record id has been put on the persistence-request channel.
Queued(id) == \E i \in 1..Len(queued) : queued[i][1] = id

\* A frame of record id is in the backing file.
InFile(id) == \E i \in 1..Len(storeFile) : storeFile[i].id = id

\* The worker logged a failed marshal or write of record id.
WriteFailed(id) ==
    \E i \in 1..Len(log) :
        /\ log[i][2] = id
        /\ log[i][1] \in {"writer: error marshalling record",
                          "writer: error storing record"}

\* Arrival-order ids among the first n inbound records that are data records
\* with local false.
RECURSIVE PersistableIds(_)
PersistableIds(n) ==
    IF n = 0 THEN <<>>
    ELSE IF Rec(n).type = "data" /\ ~Rec(n).local
         THEN Append(PersistableIds(n - 1), n)
         ELSE PersistableIds(n - 1)

\* ------------------------------------------------------------------ C1
\* C1: every record accepted for persistence carries 1 + the number of records
\* accepted before it: the numbers held by the records are 1..recordNum, they
\* grow with arrival order, and the i-th send on storeChan carries number i.
C1_SequenceNumbersGapFree ==
    /\ \A id \in 1..Len(inbound) :
          num[id] /= 0 =>
             num[id] = 1 + Cardinality({j \in 1..(id - 1) : num[j] /= 0})
    /\ recordNum = Cardinality({id \in RecordIds : num[id] /= 0})
    /\ \A i \in 1..Len(queued) :
          /\ queued[i][2] = i
          /\ num[queued[i][1]] = i
          /\ i > 1 => queued[i - 1][1] < queued[i][1]

\* Three records handled, the second not persisted: the third gets number 2.
C1_Witness ==
    /\ Len(queued) = 2
    /\ queued[1] = <<1, 1>>
    /\ queued[2] = <<3, 2>>

\* ------------------------------------------------------------------ C2
\* Record id is being taken or handled by Do in this step.
HandlingStep(id) ==
    \/ cur = id
    \/ cur' = id
    \/ (pc = "recv" /\ inChan /= <<>> /\ Head(inChan) = id /\ inChan' = Tail(inChan))

\* A record with local true is not on the persistence channel, not in the
\* store, and has Num 0.
LocalKeptOut ==
    \A id \in 1..Len(inbound) :
       Rec(id).local =>
          /\ ~Queued(id)
          /\ id \notin Range(storeChan)
          /\ ~InFile(id)
          /\ num[id] = 0

\* C2: a record with local true is never put on the persistence channel nor
\* written to the store and keeps Num 0, whatever its variant, always_send and
\* x_offline; and no step that handles it changes recordNum.
C2_LocalNeverPersisted ==
    [][/\ LocalKeptOut'
       /\ \A id \in 1..Len(inbound) :
             (Rec(id).local /\ HandlingStep(id)) => recordNum' = recordNum]_vars

\* A local data record has been handled after a persisted one.
C2_Witness ==
    /\ \E id \in 1..Len(inbound) :
          /\ Rec(id).local
          /\ Rec(id).type = "data"
          /\ Handled(id)
    /\ recordNum >= 1

C4_DataForwardingRule ==
    \A id \in 1..Len(inbound) :
       Rec(id).type = "data" =>
          IF SendDone(id)
          THEN Forwarded(id) <=> ~(xOffline /\ ~Rec(id).alwaysSend)
          ELSE ~Forwarded(id)

\* Offline: one data record with always_send forwarded, one without suppressed.
C4_Witness ==
    /\ xOffline
    /\ \E a, b \in 1..Len(inbound) :
          /\ Rec(a).type = "data" /\ Rec(a).alwaysSend
          /\ SendDone(a) /\ Forwarded(a)
          /\ Rec(b).type = "data" /\ ~Rec(b).alwaysSend
          /\ SendDone(b) /\ ~Forwarded(b)

\* ------------------------------------------------------------------ C5
\* What storeChan is sent for the first n inbound records: a function of the
\* records' variants and local flags alone.
ExpectedQueued(n) ==
    LET ids == PersistableIds(n)
    IN [i \in 1..Len(ids) |-> <<ids[i], i>>]

\* C5: between records and after the run, the sends on storeChan are fixed by
\* the inbound records taken so far (variant and local flag only); x_offline
\* and always_send have no part in it, so two runs over the same inbound
\* sequence that differ in x_offline queue the same records with the same
\* numbers in the same order.
C5_PersistenceIgnoresOffline ==
    LET expected == ExpectedQueued(Taken)
    IN IF cur = 0 /\ pc \in {"recv", "closeStore", "wait", "done"}
       THEN queued = expected
       ELSE IsPrefix(queued, expected)

\* An offline run that is over, having queued a record it did not forward
\* and one it did.
C5_Witness ==
    /\ xOffline
    /\ pc = "done"
    /\ \E a, b \in 1..Len(inbound) :
          /\ Queued(a) /\ ~Forwarded(a)
          /\ Queued(b) /\ Forwarded(b)

\* ------------------------------------------------------------------ C6
\* Both channels the Writer owns are closed, the store (if one was opened) is
\* closed, and handleRecord has returned for every inbound record.
Drained ==
    /\ fwdClosed
    /\ store /= "none" => (storeChanState = "closed" /\ store = "closed")
    /\ \A id \in 1..Len(inbound) : Handled(id)

\* C6: once the handler has closed the inbound channel, and unless start-up
\* ended in the fatal store-open failure, the Writer eventually is drained:
\* forwarding channel closed, persistence channel and store closed, every
\* inbound record handled.
C6_DrainCompletes == [](inClosed => <>(pc = "panicked" \/ Drained))

\* ------------------------------------------------------------------ C7
\* C7: a record the sender has received and that is to be persisted (data,
\* local false, store in use) has already gone through the worker's write:
\* its frame is in the file, or the write was tried and failed.
C7_DurableBeforeSent ==
    \A id \in Range(received) :
       (Rec(id).type = "data" /\ ~Rec(id).local /\ ~xSync) =>
          (InFile(id) \/ WriteFailed(id))

\* ------------------------------------------------------------------ C8
\* C8: store.Open failing is fatal: Do is left by the panic with the fatal
\* error logged, and then no inbound record was or will be taken, none is
\* forwarded, numbered or queued, and the worker was not launched.
C8_OpenFailureIsFatal ==
    /\ store = "openFailed" => pc = "panicked"
    /\ pc = "panicked" =>
          /\ store = "openFailed"
          /\ Taken = 0
          /\ cur = 0
          /\ fwdChan = <<>> /\ received = <<>>
          /\ recordNum = 0 /\ \A id \in RecordIds : num[id] = 0
          /\ storeChan = <<>> /\ queued = <<>>
          /\ wpc = "none" /\ wg = 0
          /\ storeFile = <<>>
          /\ log = <<<<"writer: error creating store", 0>>>>
          /\ ~ENABLED WriterNext

\* Open failed while the handler had already sent records and closed.
C8_Witness ==
    /\ pc = "panicked"
    /\ inChan /= <<>>
    /\ inClosed

\* ------------------------------------------------------------------ C9
\* The frame decoded from the file for record id carrying sequence number k.
Frame(id, k) ==
    [id |-> id, type |-> Rec(id).type, local |-> Rec(id).local,
     alwaysSend |-> Rec(id).alwaysSend, num |-> k]

\* C9 as stated: after the drain the file holds, in order, exactly the data
\* records with local false, the i-th with sequence number i.
C9_StoreHoldsEveryPersistable ==
    store = "closed" =>
       LET ids == PersistableIds(Len(inbound))
       IN storeFile = [i \in 1..Len(ids) |-> Frame(ids[i], i)]

\* Frames of the first n inbound records: the data records with local false
\* whose marshal and write did not fail, each with its rank among the data
\* records with local false as sequence number.
RECURSIVE WrittenFrames(_)
WrittenFrames(n) ==
    IF n = 0 THEN <<>>
    ELSE IF Rec(n).type = "data" /\ ~Rec(n).local /\ ~WriteFailed(n)
         THEN Append(WrittenFrames(n - 1), Frame(n, Len(PersistableIds(n))))
         ELSE WrittenFrames(n - 1)

\* C9 amended: after the drain the file holds, in arrival order, exactly the
\* data records with local false whose serialization and store write did not
\* fail, each with its injected sequence number; at no time does it hold a
\* local record, a request or nil record, or a record twice or out of order.
C9_StoreHoldsEveryWritten ==
    /\ store = "closed" => storeFile = WrittenFrames(Len(inbound))
    /\ \A i \in 1..Len(storeFile) :
          /\ storeFile[i].type = "data"
          /\ ~storeFile[i].local
          /\ i > 1 => storeFile[i - 1].id < storeFile[i].id

\* Three persisted records, the write of the second failed: the file holds
\* the first and the third, numbered 1 and 3.
C9_Witness ==
    /\ pc = "done"
    /\ store = "closed"
    /\ Len(storeFile) = 2
    /\ storeFile[1].num = 1
    /\ storeFile[2].num = 3

\* ------------------------------------------------------------------ C10
\* Arrival-order ids among the first n inbound records that sendRecord puts
\* on fwdChan: handleRecord calls it for every variant but nil.
RECURSIVE ExpectedForwarded(_)
ExpectedForwarded(n) ==
    IF n = 0 THEN <<>>
    ELSE IF Rec(n).type /= "nil" /\ ~(xOffline /\ ~Rec(n).alwaysSend)
         THEN Append(ExpectedForwarded(n - 1), n)
         ELSE ExpectedForwarded(n - 1)

\* Records for which sendRecord has returned or was never called are 1..SendPassed.
SendPassed == IF pc = "send" THEN Taken - 1 ELSE Taken

\* C10: what the sender has received, followed by what waits on the
\* forwarding channel, is at every moment exactly the arrival-order
\* subsequence of the records handled so far that pass the forwarding rule
\* of sendRecord: nothing reordered, duplicated or forwarded against the rule.
C10_ForwardingOrder ==
    /\ received \o fwdChan = ExpectedForwarded(SendPassed)
    /\ (pc = "done" /\ fwdChan = <<>>) => received = ExpectedForwarded(Len(inbound))

\* Offline: the sender got the first and third record, the data record
\* between them was suppressed.
C10_Witness ==
    /\ xOffline
    /\ Len(inbound) = 3
    /\ Rec(2).type = "data"
    /\ received = <<1, 3>>
    /\ pc = "done"

\* ------------------------------------------------------------------ C11
\* C11: the sequence numbers of the frames in the file, read in write order,
\* are 1, 2, ..., m: strictly increasing and without a gap, whatever marshal
\* or write failures occurred.
C11_LogGapFree ==
    \A i \in 1..Len(storeFile) : storeFile[i].num = i

\* ------------------------------------------------------------------ C12
\* The sender takes record id from the forwarding channel in this step.
SenderTakes(id) ==
    /\ fwdChan /= <<>>
    /\ Head(fwdChan) = id
    /\ received' = Append(received, id)

\* C12: when the sender takes a data record that is persisted (local false,
\* store in use), the Num it reads on the record is the sequence number of
\* the record's on-disk copy, its rank among the data records with local false.
C12_SenderSeesStoredNum ==
    [][\A id \in 1..Len(inbound) :
          (SenderTakes(id) /\ Rec(id).type = "data" /\ ~Rec(id).local /\ ~xSync)
             => num[id] = Len(PersistableIds(id))]_vars

\* ------------------------------------------------------------------ C13
\* C13: with x_sync set, once the handler has closed the inbound channel the
\* Writer handles every record, closes the forwarding channel and Do returns.
C13_SyncRunCompletes ==
    []((xSync /\ inClosed) =>
         <>(pc = "done" /\ fwdClosed /\ \A id \in 1..Len(inbound) : Handled(id)))

\* ------------------------------------------------------------------ C14
\* The store is closed only with storeChan closed and drained and the worker
\* finished; and Do has returned from a run with a store only with it closed.
StoreClosedInOrder ==
    /\ store = "closed" =>
          /\ storeChanState = "closed"
          /\ storeChan = <<>>
          /\ wpc = "done"
          /\ \A i \in 1..Len(queued) :
                InFile(queued[i][1]) \/ WriteFailed(queued[i][1])
    /\ (pc = "done" /\ ~xSync) => store = "closed"

\* C14: the store is closed once, by the worker's closing step, only after
\* storeChan was closed and every queued record was taken (written or
\* skipped); once closed it stays closed, is not closed again and gets no
\* further write; and Do returns only after that close.
C14_StoreClosedOnceAfterDrain ==
    [][/\ StoreClosedInOrder'
       /\ (store /= "closed" /\ store' = "closed") =>
             (wpc = "run" /\ wpc' = "done" /\ storeChanState = "closed"
              /\ storeChan = <<>>)
       /\ store = "closed" =>
             (store' = "closed" /\ storeFile' = storeFile /\ wpc' = "done")
       /\ (pc /= "done" /\ pc' = "done" /\ ~xSync) => store = "closed"]_vars

\* Do has returned from a run that queued two records; the store is closed.
C14_Witness ==
    /\ pc = "done"
    /\ store = "closed"
    /\ Len(queued) >= 2

\* ------------------------------------------------------------------ C15
\* The worker has logged a failed marshal or write.
AnyWriteFailed == \E id \in 1..Len(inbound) : WriteFailed(id)

\* The worker has logged a failed store.Close.
CloseFailed ==
    \E i \in 1..Len(log) : log[i][1] = "writer: error closing store"

\* Some goroutine of the pipeline (Do, worker, sender) can take a step.
CanProceed == ENABLED (WriterNext \/ WorkerNext \/ SenderRecv)

\* C15: a failed marshal or write costs only its own record: of the records
\* the worker has taken, exactly the failed ones are missing from the file;
\* after a failure the worker is still running, or has ended by closing the
\* store and releasing Do; a failed close releases Do as well; and after any
\* such failure, once the inbound channel is closed, the pipeline is never
\* stuck short of Do returning.
C15_FailuresNotFatal ==
    /\ \A i \in 1..Len(queued) :
          LET id == queued[i][1]
          IN id \notin Range(storeChan) => (InFile(id) <=> ~WriteFailed(id))
    /\ AnyWriteFailed =>
          (wpc = "run" \/ (wpc = "done" /\ wg = 0 /\ store = "closed"))
    /\ CloseFailed => (wpc = "done" /\ wg = 0 /\ store = "closed")
    /\ (inClosed /\ pc /= "done" /\ (CloseFailed \/ AnyWriteFailed)) => CanProceed

\* The write of the first record failed, the second was written after it,
\* the close of the store failed too, and Do has returned.
C15_Witness ==
    /\ pc = "done"
    /\ WriteFailed(1)
    /\ InFile(2)
    /\ CloseFailed

\* ------------------------------------------------------------------ C16
\* Log entries written on behalf of the store or the worker.
StoreLogEntries ==
    {"writer: error creating store", "writer: error marshalling record",
     "writer: error storing record", "writer: error closing store"}

\* C16: with x_sync set the store is never created, opened, written or
\* closed, storeChan stays nil and no worker is launched, whatever arrives.
C16_SyncNeverTouchesStore ==
    xSync =>
       /\ store = "none"
       /\ storeFile = <<>>
       /\ storeChanState = "nil"
       /\ storeChan = <<>> /\ queued = <<>>
       /\ wpc = "none" /\ wg = 0
       /\ \A i \in 1..Len(log) : log[i][1] \notin StoreLogEntries

\* A sync run over three records, one of them forwarded, that has ended.
C16_Witness ==
    /\ xSync
    /\ pc = "done"
    /\ Len(inbound) = 3
    /\ received /= <<>>

\* ------------------------------------------------------------------ C17
\* Do takes record id from the inbound channel in this step.
TakeStep(id) ==
    /\ pc = "recv"
    /\ inChan /= <<>>
    /\ Head(inChan) = id
    /\ inChan' = Tail(inChan)

\* A record with an unset payload variant is nowhere downstream.
NilKeptOut ==
    \A id \in 1..Len(inbound) :
       Rec(id).type = "nil" =>
          /\ ~Forwarded(id)
          /\ ~Queued(id) /\ id \notin Range(storeChan) /\ ~InFile(id)
          /\ num[id] = 0
          /\ cur /= id

\* C17: a record whose payload variant is unset is dropped in the step that
\* takes it: the error is logged, nothing is put on either channel, recordNum
\* is unchanged, and Do is back at the range loop for the next record; such a
\* record never shows up downstream.
C17_NilRecordDropped ==
    [][/\ NilKeptOut'
       /\ \A id \in 1..Len(inbound) :
             (TakeStep(id) /\ Rec(id).type = "nil") =>
                /\ pc' = "recv" /\ cur' = 0
                /\ log' = Append(log, <<"nil record type", id>>)
                /\ UNCHANGED <<fwdChan, storeChan, queued, recordNum, num>>]_vars

\* A nil record was dropped and the data record after it was handled and
\* queued with number 1.
C17_Witness ==
    /\ Len(inbound) >= 2
    /\ Rec(1).type = "nil"
    /\ log /= <<>> /\ log[1] = <<"nil record type", 1>>
    /\ Handled(2)
    /\ queued = <<<<2, 1>>>>

\* ------------------------------------------------------------------ C18
\* The forwarding rule applied to record id.
PassesRule(id) == ~(xOffline /\ ~Rec(id).alwaysSend)

\* storeRecord has been entered for record id.
StoreEntered(id) ==
    \/ cur = id /\ pc \in {"store", "storeSend"}
    \/ num[id] /= 0
    \/ Queued(id)

\* Persistence of a data record starts only with its forwarding step done;
\* every handled data record with local false is queued; the queue keeps the
\* processing order.
ForwardThenQueue ==
    /\ \A id \in 1..Len(inbound) :
          /\ StoreEntered(id) =>
                (Rec(id).type = "data" /\ (Forwarded(id) <=> PassesRule(id)))
          /\ (Handled(id) /\ Rec(id).type = "data" /\ ~Rec(id).local) => Queued(id)
    /\ \A i \in 2..Len(queued) : queued[i - 1][1] < queued[i][1]

BlockedOnFull ==
    \/ pc = "storeSend" /\ storeChanState = "open" /\ Len(storeChan) = StoreChanCap
    \/ pc = "send" /\ PassesRule(cur) /\ Len(fwdChan) = FwdChanCap

\* Neither channel holds more than its capacity, and nothing was dropped:
\* every handled record that passes the forwarding rule is on fwdChan or with
\* the sender, every handled data record with local false was queued, and
\* every queued record is on storeChan or was taken by the worker.
WithinCapacityNoLoss ==
    /\ Len(storeChan) <= StoreChanCap
    /\ Len(fwdChan) <= FwdChanCap
    /\ \A id \in 1..Len(inbound) :
          /\ (Handled(id) /\ Rec(id).type /= "nil" /\ PassesRule(id)) => Forwarded(id)
          /\ (Handled(id) /\ Rec(id).type = "data" /\ ~Rec(id).local) => Queued(id)
          /\ Queued(id) => (id \in Range(storeChan) \/ InFile(id) \/ WriteFailed(id))

\* C19: neither channel ever holds more than its capacity and no record is
\* dropped or skipped for want of room; and while the channel it must send on
\* is full Do does not move: it stays at its send, takes no further inbound
\* record and numbers or queues nothing, until the consumer has made room.
C19_BackpressureWithoutLoss ==
    [][/\ WithinCapacityNoLoss'
       /\ BlockedOnFull =>
             UNCHANGED <<pc, cur, Taken, recordNum, num, queued, fwdClosed>>]_vars

\* Do is blocked sending the second record on the full persistence channel
\* while the third waits on the inbound channel.
C19_Witness ==
    /\ pc = "storeSend"
    /\ cur = 2
    /\ Len(storeChan) = StoreChanCap
    /\ inChan /= <<>>

\* ------------------------------------------------------------------ C20
\* C20: while Do is in its loop neither channel is closed, so no send meets a
\* closed channel; fwdChan is closed before storeChan, each by the one step
\* of Close that closes it, and only when the inbound channel is closed and
\* drained and handleRecord has returned for every inbound record.
C20_ChannelsClosedOnceAtEnd ==
    /\ pc \in {"start", "recv", "send", "store", "storeSend"} =>
          (~fwdClosed /\ storeChanState /= "closed")
    /\ pc = "closeStore" => (fwdClosed /\ storeChanState /= "closed")
    /\ storeChanState = "closed" => fwdClosed
    /\ fwdClosed =>
          /\ inClosed /\ inChan = <<>>
          /\ cur = 0
          /\ \A id \in 1..Len(inbound) : Handled(id)
          /\ pc \in {"closeStore", "wait", "done"}

\* fwdChan is closed, storeChan not yet, after two records were queued.
C20_Witness ==
    /\ pc = "closeStore"
    /\ fwdClosed
    /\ storeChanState = "open"
    /\ Len(queued) = 2

====
